---- MODULE Spec2Model ----
(***************************************************************************)
(* Host-side IframeExecutionEnvironmentService together with the isolate   *)
(* side worker Controller (SnapWorker.ts).  One action per event-loop turn *)
(* of the host or of an isolate: a public call up to its first await, the  *)
(* continuation of an await, a timer callback, a worker command handler.   *)
(***************************************************************************)
EXTENDS Integers, Sequences, FiniteSets, TLC

\* ---------------------------------------------------------------- bounds
MaxJobs == 2        \* isolates spawned (job ids minted by nanoid())
MaxCalls == 2       \* executeSnap calls issued by callers
MaxTimers == 2      \* liveness timers created by setTimeout
MaxHookCalls == 1   \* invocations of snap RPC hooks by callers
MaxOob == 2         \* id-less errors isolates push on the command channel

JobIds == 1..MaxJobs
TimerIds == 1..MaxTimers

\* the (origin, request) pairs callers pass to a hook
RpcArgs == {"x", "y"}
\* what a snap's RPC handler does with a request: resolve to "v", throw Error("e")
HandlerOutcomes ==
  { [threw |-> FALSE, value |-> "v"], [threw |-> TRUE, value |-> "e"] }

\* snap ids: two well-formed ones and the empty string
SnapIdValues == {"A", "B", ""}
\* sourceCode: "reg" registers an RPC handler, "throw" throws while being
\* evaluated, "" is the empty string
SourceValues == {"reg", "throw", ""}
\* the snapData values callers pass to executeSnap
SnapDataValues ==
  { [snapId |-> "A", sourceCode |-> "reg"],
    [snapId |-> "B", sourceCode |-> "reg"],
    [snapId |-> "A", sourceCode |-> "throw"],
    [snapId |-> "A", sourceCode |-> ""],
    [snapId |-> "", sourceCode |-> "reg"] }

\* ------------------------------------------------------ Map<K,V> helpers
MapHas(m, k) == k \in DOMAIN m

MapSet(m, k, v) == [x \in (DOMAIN m) \cup {k} |-> IF x = k THEN v ELSE m[x]]

MapDelete(m, k) == [x \in (DOMAIN m) \ {k} |-> m[x]]

EmptyMap == << >>

SeqToSet(s) == {s[i] : i \in 1..Len(s)}

SeqRemove(s, e) == SelectSeq(s, LAMBDA x : x # e)

\* ------------------------------------------------------------- variables
VARIABLES
  jobs,                      \* this.jobs: keys in insertion order
  nextJob,                   \* number of job ids minted so far
  destroyed,                 \* jobs whose streams have been destroyed
  containers,                \* iframes present in the document (by job id)
  snapToJobMap,              \* this.snapToJobMap
  jobToSnapMap,              \* this.jobToSnapMap
  snapRpcHooks,              \* this._snapRpcHooks: snapId -> [target, jobId]
  timeoutForUnresponsiveMap, \* this._timeoutForUnresponsiveMap: snapId -> handle
  timers,                    \* pending liveness timers [id, snapId, jobId]
  nextTimer,                 \* number of timer handles handed out
  polls,                     \* liveness pings being raced [id, snapId, jobId]
  calls,                     \* executeSnap calls: [snapId, sourceCode, pc, job, err]
  hookRefs,                  \* hooks ever installed: references callers may hold
  hookCalls,                 \* hook invocations: [target, job, stale, status, arg, value]
  cmds,                      \* commands written to a job's command stream
  resps,                     \* responses written by an isolate
  snapRpcHandlers,           \* per job: Controller.snapRpcHandlers keys
  unresponsive,              \* 'ServiceMessenger:unresponsive' publications per snapId
  unresponsiveOfJob,         \* the same publications, per pinged job
  providerSetups,            \* setupSnapProvider calls: [snapId, job] -> how often
  contractObeyed,            \* no double-execute and no terminate-unknown so far
  lastCall,                  \* the terminateSnap / terminateAllSnaps call that has
                             \* just settled, if the last turn was one
  errorHandlerRemoved,       \* jobs whose errorHandler has removed itself
  oobCount,                  \* id-less errors pushed by isolates so far
  oobErrors,                 \* per job: id-less errors that arrived while mapped
  unhandledError,            \* 'ServiceMessenger:unhandledError' publications per snapId
  unhandledErrorOfJob,       \* the same publications, per job
  sick,                      \* isolates that failed or missed a ping while running
  handlerRuns,               \* per hook invocation: the runs of the snap's RPC handler
  evalThrew,                 \* per job: snaps whose latest evaluation threw
  workerTurn                 \* the latest message an isolate was handed on its own,
                             \* with what the controller did with it

vars == << jobs, nextJob, destroyed, containers, snapToJobMap, jobToSnapMap,
           snapRpcHooks, timeoutForUnresponsiveMap, timers, nextTimer, polls,
           calls, hookRefs, hookCalls, cmds, resps, snapRpcHandlers,
           unresponsive, unresponsiveOfJob, providerSetups, contractObeyed,
           lastCall, errorHandlerRemoved, oobCount, oobErrors, unhandledError,
           unhandledErrorOfJob, sick, handlerRuns, evalThrew, workerTurn >>

\* what only the errorHandler of _initStreams writes
oobVars == << errorHandlerRemoved, oobCount, oobErrors, unhandledError,
              unhandledErrorOfJob >>

\* -------------------------------------------------- host state as a value
\* The fields terminate() reads and writes, gathered so that terminate can be
\* applied several times within one turn (terminateAllSnaps).
Host ==
  [ jobs |-> jobs, destroyed |-> destroyed, containers |-> containers,
    snapToJobMap |-> snapToJobMap, jobToSnapMap |-> jobToSnapMap,
    snapRpcHooks |-> snapRpcHooks,
    timeoutForUnresponsiveMap |-> timeoutForUnresponsiveMap,
    timers |-> timers, cmds |-> cmds, resps |-> resps, thrown |-> FALSE ]

SetHost(h) ==
  /\ jobs' = h.jobs
  /\ destroyed' = h.destroyed
  /\ containers' = h.containers
  /\ snapToJobMap' = h.snapToJobMap
  /\ jobToSnapMap' = h.jobToSnapMap
  /\ snapRpcHooks' = h.snapRpcHooks
  /\ timeoutForUnresponsiveMap' = h.timeoutForUnresponsiveMap
  /\ timers' = h.timers
  /\ cmds' = h.cmds
  /\ resps' = h.resps

\* JavaScript truthiness of a string value: `!snapId` is true for ""
Truthy(v) == v # ""

\* SnapWorker.ts isTruthyString
isTruthyString(v) == v \in STRING /\ v # ""

\* clearTimeout(handle): the pending timer with that handle, if any, is dropped
clearTimeout(ts, handle) == {t \in ts : t.id # handle}

\* _removeSnapHooks that forgets to delete the hook
removeSnapHooksKept(h, snapId) == h

\* _removeSnapHooks
removeSnapHooks(h, snapId) ==
  [h EXCEPT !.snapRpcHooks = MapDelete(@, snapId)]

\* _removeSnapAndJobMapping
removeSnapAndJobMapping(h, jobId) ==
  IF ~MapHas(h.jobToSnapMap, jobId) \/ ~Truthy(h.jobToSnapMap[jobId])
  THEN [h EXCEPT !.thrown = TRUE]
  ELSE LET snapId == h.jobToSnapMap[jobId] IN
       removeSnapHooks(
         [h EXCEPT !.jobToSnapMap = MapDelete(@, jobId),
                   !.snapToJobMap = MapDelete(@, snapId)],
         snapId)

\* _deleteJob that leaves the job record in the registry
deleteJobKept(h, jobId) == h

\* _deleteJob
deleteJob(h, jobId) == [h EXCEPT !.jobs = SeqRemove(@, jobId)]

\* stream.destroy() + removeAllListeners() on command, rpc and _connection:
\* nothing written to or by the isolate is delivered any more
destroyStreams(h, jobId) ==
  [h EXCEPT !.destroyed = @ \cup {jobId},
            !.cmds = {c \in @ : c.job # jobId},
            !.resps = {r \in @ : r.job # jobId}]

\* terminate(jobId)
terminate(h, jobId) ==
  IF jobId \notin SeqToSet(h.jobs)
  THEN [h EXCEPT !.thrown = TRUE]
  ELSE IF ~MapHas(h.jobToSnapMap, jobId) \/ ~Truthy(h.jobToSnapMap[jobId])
  THEN [h EXCEPT !.thrown = TRUE]
  ELSE LET snapId == h.jobToSnapMap[jobId]
           h1 == destroyStreams(h, jobId)
           h2 == [h1 EXCEPT !.containers = @ \ {jobId}]
           h3 == IF MapHas(h2.timeoutForUnresponsiveMap, snapId)
                 THEN [h2 EXCEPT !.timers =
                         clearTimeout(@, h2.timeoutForUnresponsiveMap[snapId])]
                 ELSE h2
           h4 == [h3 EXCEPT !.timeoutForUnresponsiveMap = MapDelete(@, snapId)]
           h5 == removeSnapAndJobMapping(h4, jobId)
       IN  deleteJob(h5, jobId)

\* the loop of terminateAllSnaps over this.jobs.keys(); a throw ends it
RECURSIVE terminateEach(_, _)
terminateEach(h, js) ==
  IF js = << >> THEN h
  ELSE LET h1 == terminate(h, Head(js)) IN
       IF h1.thrown THEN h1 ELSE terminateEach(h1, Tail(js))

\* getRpcMessageHandler(snapId); "absent" stands for undefined
getRpcMessageHandler(snapId) ==
  IF MapHas(snapRpcHooks, snapId) THEN snapRpcHooks[snapId] ELSE "absent"

\* the settled promise of a terminateSnap / terminateAllSnaps call
Settle(op, rejected) == [op |-> op, rejected |-> rejected]

NoCall == Settle("none", FALSE)

\* no message has been handed to an isolate yet
NoTurn ==
  [message |-> [kind |-> "none"], job |-> 0, handlersBefore |-> {},
   failedBefore |-> {}, written |-> {}, ran |-> FALSE]

\* ------------------------------------------------------------------ Init
Init ==
  /\ jobs = << >>
  /\ nextJob = 0
  /\ destroyed = {}
  /\ containers = {}
  /\ snapToJobMap = EmptyMap
  /\ jobToSnapMap = EmptyMap
  /\ snapRpcHooks = EmptyMap
  /\ timeoutForUnresponsiveMap = EmptyMap
  /\ timers = {}
  /\ nextTimer = 0
  /\ polls = {}
  /\ calls = << >>
  /\ hookRefs = {}
  /\ hookCalls = << >>
  /\ cmds = {}
  /\ resps = {}
  /\ snapRpcHandlers = [j \in JobIds |-> {}]
  /\ unresponsive = [s \in SnapIdValues |-> 0]
  /\ unresponsiveOfJob = [j \in JobIds |-> 0]
  /\ providerSetups = EmptyMap
  /\ contractObeyed = TRUE
  /\ lastCall = NoCall
  /\ errorHandlerRemoved = {}
  /\ oobCount = 0
  /\ oobErrors = [j \in JobIds |-> 0]
  /\ unhandledError = [s \in SnapIdValues |-> 0]
  /\ unhandledErrorOfJob = [j \in JobIds |-> 0]
  /\ sick = {}
  /\ handlerRuns = [n \in 1..MaxHookCalls |-> << >>]
  /\ evalThrew = [j \in JobIds |-> {}]
  /\ workerTurn = NoTurn

\* ------------------------------------------------- messages and messenger
Cmd(id, job, method, snapId, sourceCode, arg) ==
  [id |-> id, job |-> job, method |-> method, snapId |-> snapId,
   sourceCode |-> sourceCode, arg |-> arg]

\* a response tagged with no request's id
RespUntagged(id, job, error, value) ==
  [id |-> <<"none", 0>>, job |-> job, error |-> error, value |-> value]

\* respond(id, responseObj): the response carries the request's id
Resp(id, job, error, value) ==
  [id |-> id, job |-> job, error |-> error, value |-> value]

\* this._messenger.publish('ServiceMessenger:unresponsive', snapId), issued by
\* the liveness chain that was pinging jobId
publishUnresponsive(snapId, jobId) ==
  /\ unresponsive' = [unresponsive EXCEPT ![snapId] = @ + 1]
  /\ unresponsiveOfJob' = [unresponsiveOfJob EXCEPT ![jobId] = @ + 1]

\* a snapId some executeSnap call is working on, or that is mapped
Executing(snapId) ==
  \/ MapHas(snapToJobMap, snapId)
  \/ \E c \in 1..Len(calls) :
       calls[c].snapId = snapId /\ calls[c].pc \in {"window", "ping", "exec"}

Call(snapId, sourceCode, pc, job, err) ==
  [snapId |-> snapId, sourceCode |-> sourceCode, pc |-> pc, job |-> job,
   err |-> err]

\* ------------------------------------------------------ executeSnap, _init
\* an executeSnap that never finds the snap in the mapping
alreadyExecutedNever(snapId) == FALSE

\* the guard of executeSnap: this.snapToJobMap.has(snapData.snapId)
alreadyExecuted(snapId) == MapHas(snapToJobMap, snapId)

\* executeSnap up to its first suspension: the has() check, then _init mints
\* the job id and _createWindow appends the iframe and waits for 'load'
ExecuteSnap(snapId, sourceCode) ==
  /\ lastCall' = NoCall
  /\ UNCHANGED << oobVars, sick, handlerRuns, evalThrew, workerTurn >>
  /\ Len(calls) < MaxCalls
  /\ contractObeyed' = (contractObeyed /\ ~Executing(snapId))
  /\ IF alreadyExecuted(snapId)
     THEN /\ calls' = Append(calls, Call(snapId, sourceCode, "rejected", 0,
                                         "already being executed"))
          /\ UNCHANGED << nextJob, containers >>
     ELSE /\ nextJob < MaxJobs
          /\ nextJob' = nextJob + 1
          /\ containers' = containers \cup {nextJob + 1}
          /\ calls' = Append(calls, Call(snapId, sourceCode, "window",
                                         nextJob + 1, ""))
  /\ UNCHANGED << jobs, destroyed, snapToJobMap, jobToSnapMap, snapRpcHooks,
                  timeoutForUnresponsiveMap, timers, nextTimer, polls,
                  hookRefs, hookCalls, cmds, resps, snapRpcHandlers,
                  unresponsive, unresponsiveOfJob, providerSetups >>

\* the iframe's 'load' event: _initStreams returns, _init registers the job
\* (_setJob) and sends the handshake ping
WindowLoaded(c) ==
  /\ lastCall' = NoCall
  /\ UNCHANGED << oobVars, sick, handlerRuns, evalThrew, workerTurn >>
  /\ calls[c].pc = "window"
  /\ jobs' = Append(jobs, calls[c].job)
  /\ cmds' = cmds \cup {Cmd(<<"init", c>>, calls[c].job, "ping", "", "", "")}
  /\ calls' = [calls EXCEPT ![c].pc = "ping"]
  /\ UNCHANGED << nextJob, destroyed, containers, snapToJobMap, jobToSnapMap,
                  snapRpcHooks, timeoutForUnresponsiveMap, timers, nextTimer,
                  polls, hookRefs, hookCalls, resps, snapRpcHandlers,
                  unresponsive, unresponsiveOfJob, providerSetups,
                  contractObeyed >>

\* _createWindow's errorTimeout: the iframe is removed and the call rejects
WindowTimeout(c) ==
  /\ lastCall' = NoCall
  /\ UNCHANGED << oobVars, sick, handlerRuns, evalThrew, workerTurn >>
  /\ calls[c].pc = "window"
  /\ containers' = containers \ {calls[c].job}
  /\ calls' = [calls EXCEPT ![c].pc = "rejected",
                            ![c].err = "Timed out creating iframe window"]
  /\ UNCHANGED << jobs, nextJob, destroyed, snapToJobMap, jobToSnapMap,
                  snapRpcHooks, timeoutForUnresponsiveMap, timers, nextTimer,
                  polls, hookRefs, hookCalls, cmds, resps, snapRpcHandlers,
                  unresponsive, unresponsiveOfJob, providerSetups,
                  contractObeyed >>

\* _mapSnapAndJob
mapSnapAndJob(h, snapId, jobId) ==
  [h EXCEPT !.snapToJobMap = MapSet(@, snapId, jobId),
            !.jobToSnapMap = MapSet(@, jobId, snapId)]

\* the handshake ping is answered: _init returns the job, executeSnap maps it
\* and sends the executeSnap command; an error response rejects the call
InitPingResponse(r) ==
  /\ lastCall' = NoCall
  /\ UNCHANGED << oobVars, sick, handlerRuns, evalThrew, workerTurn >>
  /\ r \in resps
  /\ r.id[1] = "init"
  /\ LET c == r.id[2]
         h == mapSnapAndJob(Host, calls[c].snapId, calls[c].job)
     IN
     /\ calls[c].pc = "ping"
     /\ IF r.error
        THEN /\ calls' = [calls EXCEPT ![c].pc = "rejected", ![c].err = r.value]
             /\ resps' = resps \ {r}
             /\ UNCHANGED << snapToJobMap, jobToSnapMap, cmds >>
        ELSE /\ calls' = [calls EXCEPT ![c].pc = "exec"]
             /\ snapToJobMap' = h.snapToJobMap
             /\ jobToSnapMap' = h.jobToSnapMap
             /\ resps' = resps \ {r}
             /\ cmds' = cmds \cup {Cmd(<<"exec", c>>, calls[c].job, "executeSnap",
                                       calls[c].snapId, calls[c].sourceCode, "")}
  /\ UNCHANGED << jobs, nextJob, destroyed, containers, snapRpcHooks,
                  timeoutForUnresponsiveMap, timers, nextTimer, polls,
                  hookRefs, hookCalls, snapRpcHandlers, unresponsive,
                  unresponsiveOfJob, providerSetups, contractObeyed >>

\* _pollForJobStatus(snapId): throws when the snap is not mapped, otherwise
\* arms a timer for the job the snap is mapped to NOW and stores its handle
pollForJobStatus(h, snapId, handle) ==
  IF ~MapHas(h.snapToJobMap, snapId)
  THEN [h EXCEPT !.thrown = TRUE]
  ELSE [h EXCEPT !.timers = @ \cup {[id |-> handle, snapId |-> snapId,
                                      jobId |-> h.snapToJobMap[snapId]]},
                 !.timeoutForUnresponsiveMap = MapSet(@, snapId, handle)]

\* _createSnapHooks whose hook sends to the first job of the registry
createSnapHooksForFirstJob(h, snapId, jobId) ==
  [h EXCEPT !.snapRpcHooks =
     MapSet(@, snapId, [target |-> snapId, job |-> Head(h.jobs)])]

\* _createSnapHooks: the hook closes over snapId and jobId
createSnapHooks(h, snapId, jobId) ==
  [h EXCEPT !.snapRpcHooks = MapSet(@, snapId, [target |-> snapId, job |-> jobId])]

\* this.setupSnapProvider(snapId, job.streams.rpc): the injected callback is
\* handed the snapId and the rpc substream of that job
setupSnapProvider(setups, snapId, job) ==
  LET key == [snapId |-> snapId, job |-> job] IN
  MapSet(setups, key, IF MapHas(setups, key) THEN setups[key] + 1 ELSE 1)

\* the executeSnap command is answered.  Error: terminate(job.id) and rethrow
\* (terminate itself may throw).  Success: setupSnapProvider,
\* _pollForJobStatus (may throw), _createSnapHooks, return.
ExecResponse(r) ==
  /\ lastCall' = NoCall
  /\ UNCHANGED << oobVars, sick, handlerRuns, evalThrew, workerTurn >>
  /\ r \in resps
  /\ r.id[1] = "exec"
  /\ LET c == r.id[2]
         snapId == calls[c].snapId
         job == calls[c].job
         h0 == [Host EXCEPT !.resps = @ \ {r}]
         ht == terminate(h0, job)
         hp == pollForJobStatus(h0, snapId, nextTimer + 1)
     IN
     /\ calls[c].pc = "exec"
     /\ IF r.error
        THEN /\ SetHost(ht)
             /\ calls' = [calls EXCEPT ![c].pc = "rejected",
                            ![c].err = IF ht.thrown
                                       THEN "Failed to find a snap for job"
                                       ELSE r.value]
             /\ UNCHANGED << nextTimer, hookRefs, providerSetups >>
        ELSE /\ providerSetups' = setupSnapProvider(providerSetups, snapId, job)
             /\ IF hp.thrown
                THEN /\ SetHost(hp)
                     /\ calls' = [calls EXCEPT ![c].pc = "rejected",
                                    ![c].err = "no job id found for snap"]
                     /\ UNCHANGED << nextTimer, hookRefs >>
                ELSE /\ nextTimer < MaxTimers
                     /\ nextTimer' = nextTimer + 1
                     /\ SetHost(createSnapHooks(hp, snapId, job))
                     /\ hookRefs' = hookRefs \cup
                          {createSnapHooks(hp, snapId, job).snapRpcHooks[snapId]}
                     /\ calls' = [calls EXCEPT ![c].pc = "resolved"]
  /\ UNCHANGED << nextJob, polls, hookCalls, snapRpcHandlers, unresponsive,
                  unresponsiveOfJob, contractObeyed >>

\* ------------------------------------------------------- liveness polling
\* the timer armed by _pollForJobStatus fires: _getJobStatus(jobId) sends a
\* ping raced against unresponsiveTimeout; _command rejects at once when the
\* job is gone, which the chain reports as unresponsive
TimerFire(t) ==
  /\ lastCall' = NoCall
  /\ UNCHANGED << oobVars, sick, handlerRuns, evalThrew, workerTurn >>
  /\ t \in timers
  /\ timers' = timers \ {t}
  /\ IF t.jobId \in SeqToSet(jobs)
     THEN /\ cmds' = cmds \cup {Cmd(<<"poll", t.id>>, t.jobId, "ping", "", "", "")}
          /\ polls' = polls \cup {t}
          /\ UNCHANGED << unresponsive, unresponsiveOfJob >>
     ELSE /\ publishUnresponsive(t.snapId, t.jobId)
          /\ UNCHANGED << cmds, polls >>
  /\ UNCHANGED << jobs, nextJob, destroyed, containers, snapToJobMap,
                  jobToSnapMap, snapRpcHooks, timeoutForUnresponsiveMap,
                  nextTimer, calls, hookRefs, hookCalls, resps,
                  snapRpcHandlers, providerSetups, contractObeyed >>

\* the liveness ping is answered before the race timed out.  Success:
\* _pollForJobStatus(snapId) again, whose throw lands in the .catch.  Error:
\* the .catch publishes unresponsive.
PollResponse(r) ==
  /\ lastCall' = NoCall
  /\ UNCHANGED << oobVars, sick, handlerRuns, evalThrew, workerTurn >>
  /\ r \in resps
  /\ r.id[1] = "poll"
  /\ \E p \in polls :
       /\ p.id = r.id[2]
       /\ polls' = polls \ {p}
       /\ LET h0 == [Host EXCEPT !.resps = @ \ {r}]
              hp == pollForJobStatus(h0, p.snapId, nextTimer + 1)
          IN
          IF r.error \/ hp.thrown
          THEN /\ publishUnresponsive(p.snapId, p.jobId)
               /\ SetHost(h0)
               /\ UNCHANGED nextTimer
          ELSE /\ nextTimer < MaxTimers
               /\ nextTimer' = nextTimer + 1
               /\ SetHost(hp)
               /\ UNCHANGED << unresponsive, unresponsiveOfJob >>
  /\ UNCHANGED << nextJob, calls, hookRefs, hookCalls, snapRpcHandlers,
                  providerSetups, contractObeyed >>

\* the race of _getJobStatus is lost to unresponsiveTimeout: the .catch
\* publishes unresponsive; a response arriving later changes nothing
PollTimeout(p) ==
  /\ lastCall' = NoCall
  /\ UNCHANGED << oobVars, handlerRuns, evalThrew, workerTurn >>
  /\ sick' = IF p.jobId \in destroyed THEN sick ELSE sick \cup {p.jobId}
  /\ p \in polls
  /\ polls' = polls \ {p}
  /\ publishUnresponsive(p.snapId, p.jobId)
  /\ cmds' = {c \in cmds : c.id # <<"poll", p.id>>}
  /\ resps' = {r \in resps : r.id # <<"poll", p.id>>}
  /\ UNCHANGED << jobs, nextJob, destroyed, containers, snapToJobMap,
                  jobToSnapMap, snapRpcHooks, timeoutForUnresponsiveMap,
                  timers, nextTimer, calls, hookRefs, hookCalls,
                  snapRpcHandlers, providerSetups, contractObeyed >>

\* ------------------------------------------- terminateSnap, terminateAllSnaps
TerminateSnap(snapId) ==
  /\ UNCHANGED << oobVars, sick, handlerRuns, evalThrew, workerTurn >>
  /\ contractObeyed' = (contractObeyed /\ MapHas(snapToJobMap, snapId))
  /\ lastCall' = Settle("terminateSnap",
                        \/ ~MapHas(snapToJobMap, snapId)
                        \/ terminate(Host, snapToJobMap[snapId]).thrown)
  /\ IF MapHas(snapToJobMap, snapId)
     THEN SetHost(terminate(Host, snapToJobMap[snapId]))
     ELSE UNCHANGED << jobs, destroyed, containers, snapToJobMap, jobToSnapMap,
                       snapRpcHooks, timeoutForUnresponsiveMap, timers, cmds,
                       resps >>
  /\ UNCHANGED << nextJob, nextTimer, polls, calls, hookRefs, hookCalls,
                  snapRpcHandlers, unresponsive, unresponsiveOfJob,
                  providerSetups >>

\* terminate every key of this.jobs, then clear the hooks; a throw of
\* terminate leaves the loop and skips the clear()
terminateAllSnaps(h) ==
  LET h1 == terminateEach(h, h.jobs) IN
  IF h1.thrown THEN h1 ELSE [h1 EXCEPT !.snapRpcHooks = EmptyMap]

TerminateAllSnaps ==
  /\ UNCHANGED << oobVars, sick, handlerRuns, evalThrew, workerTurn >>
  /\ SetHost(terminateAllSnaps(Host))
  /\ lastCall' = Settle("terminateAllSnaps", terminateAllSnaps(Host).thrown)
  /\ UNCHANGED << nextJob, nextTimer, polls, calls, hookRefs, hookCalls,
                  snapRpcHandlers, unresponsive, unresponsiveOfJob,
                  providerSetups, contractObeyed >>

\* ------------------------------------------------------------ snap RPC hook
HookCall(hook, arg, status, value) ==
  [target |-> hook.target, job |-> hook.job, stale |-> hook.job \in destroyed,
   status |-> status, arg |-> arg, value |-> value]

\* a caller invokes a hook it holds with (origin, request): _command(jobId,
\* snapRpc) rejects when the job is not registered, otherwise the command is
\* written to the job.  `stale` notes whether terminate had already completed
\* for the hook's job.
HookInvoke(hook, arg) ==
  /\ lastCall' = NoCall
  /\ UNCHANGED << oobVars, sick, handlerRuns, evalThrew, workerTurn >>
  /\ hook \in hookRefs
  /\ Len(hookCalls) < MaxHookCalls
  /\ IF hook.job \in SeqToSet(jobs)
     THEN /\ cmds' = cmds \cup {Cmd(<<"rpc", Len(hookCalls) + 1>>, hook.job,
                                   "snapRpc", hook.target, "", arg)}
          /\ hookCalls' = Append(hookCalls, HookCall(hook, arg, "pending", ""))
     ELSE /\ hookCalls' = Append(hookCalls,
                                 HookCall(hook, arg, "rejected", "Job not found"))
          /\ UNCHANGED cmds
  /\ UNCHANGED << jobs, nextJob, destroyed, containers, snapToJobMap,
                  jobToSnapMap, snapRpcHooks, timeoutForUnresponsiveMap,
                  timers, nextTimer, polls, calls, hookRefs, resps,
                  snapRpcHandlers, unresponsive, unresponsiveOfJob,
                  providerSetups, contractObeyed >>

\* _command that returns response.result even when response.error is set
commandOutcomeIgnoringError(r) ==
  [status |-> "resolved", value |-> r.value]

\* the end of _command: throw new Error(response.error.message) when the
\* response carries an error, return response.result otherwise
commandOutcome(r) ==
  [status |-> IF r.error THEN "rejected" ELSE "resolved", value |-> r.value]

\* the snapRpc command is answered: the hook's promise settles as _command does
RpcResponse(r) ==
  /\ lastCall' = NoCall
  /\ UNCHANGED << oobVars, sick, handlerRuns, evalThrew, workerTurn >>
  /\ r \in resps
  /\ r.id[1] = "rpc"
  /\ hookCalls[r.id[2]].status = "pending"
  /\ hookCalls' = [hookCalls EXCEPT ![r.id[2]].status = commandOutcome(r).status,
                                    ![r.id[2]].value = commandOutcome(r).value]
  /\ resps' = resps \ {r}
  /\ UNCHANGED << jobs, nextJob, destroyed, containers, snapToJobMap,
                  jobToSnapMap, snapRpcHooks, timeoutForUnresponsiveMap,
                  timers, nextTimer, polls, calls, hookRefs, cmds,
                  snapRpcHandlers, unresponsive, unresponsiveOfJob,
                  providerSetups, contractObeyed >>

\* ------------------------------------------------- isolate side (Controller)
\* removeSnap that keeps the handler
removeSnapKept(handlers, snapId) == handlers

\* removeSnap
removeSnap(handlers, snapId) == handlers \ {snapId}

\* wallet.registerRpcMessageHandler(fn): throws on a second registration
registerRpcMessageHandler(handlers, snapId) ==
  IF snapId \in handlers
  THEN [handlers |-> handlers, threw |-> TRUE]
  ELSE [handlers |-> handlers \cup {snapId}, threw |-> FALSE]

\* compartment.evaluate(sourceCode) for the modelled sources: "reg" registers
\* a handler, "throw" throws, "reg;throw" registers and then throws,
\* "reg;reg" registers twice
evaluate(handlers, snapId, sourceCode) ==
  LET r1 == registerRpcMessageHandler(handlers, snapId) IN
  CASE sourceCode = "reg" -> r1
    [] sourceCode = "reg;throw" -> [handlers |-> r1.handlers, threw |-> TRUE]
    [] sourceCode = "reg;reg" ->
         IF r1.threw THEN r1 ELSE registerRpcMessageHandler(r1.handlers, snapId)
    [] OTHER -> [handlers |-> handlers, threw |-> TRUE]

\* startSnap: a throw of the evaluation is caught inside startSnap, which
\* removes the snap's handler, logs, and returns normally
startSnap(handlers, snapId, sourceCode) ==
  LET e == evaluate(handlers, snapId, sourceCode) IN
  IF e.threw
  THEN [handlers |-> removeSnap(e.handlers, snapId), threw |-> FALSE]
  ELSE e

\* Controller.executeSnap: the answer to an executeSnap command and the
\* handler registry it leaves
workerExecuteSnap(handlers, snapId, sourceCode) ==
  IF ~isTruthyString(snapId) \/ ~isTruthyString(sourceCode)
  THEN [handlers |-> handlers, error |-> TRUE,
        value |-> "Invalid executeSnap parameters."]
  ELSE LET s == startSnap(handlers, snapId, sourceCode) IN
       IF s.threw
       THEN [handlers |-> s.handlers, error |-> TRUE, value |-> "evaluation error"]
       ELSE [handlers |-> s.handlers, error |-> FALSE, value |-> "OK"]

\* a property a response object does not have
Absent == "absent"

ResultObj(v) == [result |-> v, error |-> Absent]

ErrorObj(e) == [result |-> Absent, error |-> e]

\* respond(id, responseObj): writes {...responseObj, id, jsonrpc: '2.0'}
respond(id, responseObj) ==
  [id |-> id, jsonrpc |-> "2.0", result |-> responseObj.result,
   error |-> responseObj.error]

\* what one turn of the controller does: the registry it leaves, the
\* responses it wrote, whether a snap's RPC handler ran, and the evaluations
\* it made (snapId and whether the evaluation threw)
Turn(handlers, written, ran, evaluated) ==
  [handlers |-> handlers, written |-> written, ran |-> ran,
   evaluated |-> evaluated]

\* Controller.executeSnap(id, params): destructuring params === null throws a
\* TypeError (no response); params === undefined takes the default {} whose
\* snapId and sourceCode are undefined
executeSnapCommand(handlers, m) ==
  IF m.paramsKind = "null" THEN Turn(handlers, {}, FALSE, {})
  ELSE IF m.paramsKind = "undefined"
  THEN Turn(handlers,
            {respond(m.id, ErrorObj("Invalid executeSnap parameters."))},
            FALSE, {})
  ELSE LET w == workerExecuteSnap(handlers, m.snapId, m.sourceCode) IN
       Turn(w.handlers,
            {respond(m.id, IF w.error THEN ErrorObj(w.value) ELSE ResultObj(w.value))},
            FALSE,
            IF isTruthyString(m.snapId) /\ isTruthyString(m.sourceCode)
            THEN {[snapId |-> m.snapId,
                   threw |-> evaluate(handlers, m.snapId, m.sourceCode).threw]}
            ELSE {})

\* handleSnapRpc(id, params): destructuring params that are null or undefined
\* throws a TypeError (no response); no handler for the target is an error
\* response; otherwise the snap's handler runs with (origin, request) and its
\* result or its error is sent back
handleSnapRpc(handlers, m, out) ==
  IF m.paramsKind # "object" THEN Turn(handlers, {}, FALSE, {})
  ELSE IF m.snapId \notin handlers
  THEN Turn(handlers, {respond(m.id, ErrorObj("No RPC handler registered"))},
            FALSE, {})
  ELSE Turn(handlers,
            {respond(m.id, IF out.threw THEN ErrorObj(out.value)
                           ELSE ResultObj(out.value))},
            TRUE, {})

\* onCommandRequest(message); out is what the snap's handler does if it runs
onCommandRequest(handlers, m, out) ==
  IF m.kind # "object" THEN Turn(handlers, {}, FALSE, {})
  ELSE IF m.idType \notin {"string", "number"} THEN Turn(handlers, {}, FALSE, {})
  ELSE CASE m.method = "executeSnap" -> executeSnapCommand(handlers, m)
         [] m.method = "ping" ->
              Turn(handlers, {respond(m.id, ResultObj("OK"))}, FALSE, {})
         [] m.method = "snapRpc" -> handleSnapRpc(handlers, m, out)
         [] OTHER ->
              Turn(handlers, {respond(m.id, ErrorObj("Unrecognized command"))},
                   FALSE, {})

\* the message a command of the service is on the wire: an object with a
\* nanoid() string id and a params object
AsMessage(c) ==
  [kind |-> "object", idType |-> "string", id |-> c.id, method |-> c.method,
   paramsKind |-> "object", snapId |-> c.snapId, sourceCode |-> c.sourceCode,
   arg |-> c.arg]

\* the response of job as _command reads it: response.error, else response.result
Receive(job, w) ==
  Resp(w.id, job, w.error # Absent, IF w.error # Absent THEN w.error ELSE w.result)

\* the snaps whose latest evaluation in the isolate threw
noteEvaluations(failed, evaluated) ==
  (failed \ {e.snapId : e \in {x \in evaluated : ~x.threw}})
    \cup {e.snapId : e \in {x \in evaluated : x.threw}}

NoOutcome == [threw |-> FALSE, value |-> ""]

\* the isolate of a job handles a 'ping' or 'executeSnap' command of the service
OnCommandRequest(c) ==
  /\ lastCall' = NoCall
  /\ UNCHANGED << oobVars, sick, handlerRuns, workerTurn >>
  /\ c \in cmds
  /\ c.method \in {"ping", "executeSnap"}
  /\ cmds' = cmds \ {c}
  /\ LET t == onCommandRequest(snapRpcHandlers[c.job], AsMessage(c), NoOutcome) IN
     /\ resps' = resps \cup {Receive(c.job, w) : w \in t.written}
     /\ snapRpcHandlers' = [snapRpcHandlers EXCEPT ![c.job] = t.handlers]
     /\ evalThrew' = [evalThrew EXCEPT ![c.job] = noteEvaluations(@, t.evaluated)]
  /\ UNCHANGED << jobs, nextJob, destroyed, containers, snapToJobMap,
                  jobToSnapMap, snapRpcHooks, timeoutForUnresponsiveMap,
                  timers, nextTimer, polls, calls, hookRefs, hookCalls,
                  unresponsive, unresponsiveOfJob, providerSetups,
                  contractObeyed >>

\* the isolate of a job handles a 'snapRpc' command of the service
HandleSnapRpc(c) ==
  /\ lastCall' = NoCall
  /\ UNCHANGED << oobVars, sick, workerTurn, evalThrew >>
  /\ c \in cmds
  /\ c.method = "snapRpc"
  /\ cmds' = cmds \ {c}
  /\ \E out \in HandlerOutcomes :
       LET t == onCommandRequest(snapRpcHandlers[c.job], AsMessage(c), out) IN
       /\ resps' = resps \cup {Receive(c.job, w) : w \in t.written}
       /\ handlerRuns' =
            IF t.ran
            THEN [handlerRuns EXCEPT ![c.id[2]] =
                    Append(@, [job |-> c.job, target |-> c.snapId,
                               arg |-> c.arg, threw |-> out.threw,
                               value |-> out.value])]
            ELSE handlerRuns
  /\ UNCHANGED << jobs, nextJob, destroyed, containers, snapToJobMap,
                  jobToSnapMap, snapRpcHooks, timeoutForUnresponsiveMap,
                  timers, nextTimer, polls, calls, hookRefs, hookCalls,
                  snapRpcHandlers, unresponsive, unresponsiveOfJob,
                  providerSetups, contractObeyed >>

\* an isolate that answers a ping with an error response (response.error in _command)
PingError(c) ==
  /\ lastCall' = NoCall
  /\ UNCHANGED << oobVars, handlerRuns, evalThrew, workerTurn >>
  /\ sick' = sick \cup {c.job}
  /\ c \in cmds
  /\ c.method = "ping"
  /\ cmds' = cmds \ {c}
  /\ resps' = resps \cup {Resp(c.id, c.job, TRUE, "ping failed")}
  /\ UNCHANGED << jobs, nextJob, destroyed, containers, snapToJobMap,
                  jobToSnapMap, snapRpcHooks, timeoutForUnresponsiveMap,
                  timers, nextTimer, polls, calls, hookRefs, hookCalls,
                  snapRpcHandlers, unresponsive, unresponsiveOfJob,
                  providerSetups, contractObeyed >>

\* ------------------------------------------- out-of-band errors (_initStreams)
\* unsolicited messages an isolate may push on its command channel: an id-less
\* error, an id-less message without error, an error that carries an id
OobData ==
  { [error |-> TRUE, id |-> "null"],
    [error |-> FALSE, id |-> "null"],
    [error |-> TRUE, id |-> "x"] }

\* the condition of errorHandler: data.error && (id === null || id === undefined)
isOutOfBandError(data) == data.error /\ data.id \in {"null", "undefined"}

\* 'data' on the command stream of job j.  The errorHandler, while it is still
\* attached, publishes unhandledError for the snap the job is mapped to (if
\* that snapId is truthy) and then removes itself from the stream.
OobMessage(j, data) ==
  /\ lastCall' = NoCall
  /\ j \in SeqToSet(jobs)
  /\ j \notin destroyed
  /\ isOutOfBandError(data) => oobCount < MaxOob
  /\ oobCount' = IF isOutOfBandError(data) THEN oobCount + 1 ELSE oobCount
  /\ LET mapped == MapHas(jobToSnapMap, j) /\ Truthy(jobToSnapMap[j])
         handled == j \notin errorHandlerRemoved /\ isOutOfBandError(data)
     IN
     /\ oobErrors' = IF isOutOfBandError(data) /\ mapped
                      THEN [oobErrors EXCEPT ![j] = @ + 1] ELSE oobErrors
     /\ errorHandlerRemoved' = IF handled THEN errorHandlerRemoved \cup {j}
                                ELSE errorHandlerRemoved
     /\ IF handled /\ mapped
        THEN /\ unhandledError' = [unhandledError EXCEPT ![jobToSnapMap[j]] = @ + 1]
             /\ unhandledErrorOfJob' = [unhandledErrorOfJob EXCEPT ![j] = @ + 1]
        ELSE UNCHANGED << unhandledError, unhandledErrorOfJob >>
  /\ UNCHANGED << jobs, nextJob, destroyed, containers, snapToJobMap,
                  jobToSnapMap, snapRpcHooks, timeoutForUnresponsiveMap,
                  timers, nextTimer, polls, calls, hookRefs, hookCalls, cmds,
                  resps, snapRpcHandlers, unresponsive, unresponsiveOfJob,
                  providerSetups, contractObeyed, sick, handlerRuns,
                  evalThrew, workerTurn >>

\* ------------------------------------------------------------ specification
\* spawning, executing and terminating snaps, and the isolates' answers to
\* the commands this involves
Lifecycle ==
  \/ \E snapData \in SnapDataValues :
       ExecuteSnap(snapData.snapId, snapData.sourceCode)
  \/ \E c \in 1..Len(calls) : WindowLoaded(c)
  \/ \E c \in 1..Len(calls) : WindowTimeout(c)
  \/ \E r \in resps : InitPingResponse(r)
  \/ \E r \in resps : ExecResponse(r)
  \/ \E snapId \in SnapIdValues : TerminateSnap(snapId)
  \/ TerminateAllSnaps
  \/ \E c \in cmds : OnCommandRequest(c)
  \/ \E c \in cmds : PingError(c)

Next ==
  \/ Lifecycle
  \/ \E t \in timers : TimerFire(t)
  \/ \E r \in resps : PollResponse(r)
  \/ \E p \in polls : PollTimeout(p)
  \/ \E hook \in hookRefs, arg \in RpcArgs : HookInvoke(hook, arg)
  \/ \E r \in resps : RpcResponse(r)
  \/ \E c \in cmds : HandleSnapRpc(c)

Spec == Init /\ [][Next]_vars

\* The command channel's errorHandler reads jobToSnapMap and its own
\* registration only, which executeSnap and terminate write: this
\* specification runs the lifecycle against isolates that also push
\* unsolicited messages, and leaves hook invocations and liveness timers out.
NextOob ==
  \/ Lifecycle
  \/ \E j \in JobIds, data \in OobData : OobMessage(j, data)

SpecOob == Init /\ [][NextOob]_vars

\* ------------------------------------------- the controller on its own
\* ids a message may carry, with their typeof
MessageIds ==
  { [idType |-> "string", id |-> "i1"], [idType |-> "number", id |-> "7"],
    [idType |-> "null", id |-> "null"],
    [idType |-> "undefined", id |-> "undefined"] }

\* method and params of a message; "foo" is a method the controller does
\* not know
MessageBodies ==
  { [method |-> mt, paramsKind |-> "undefined", snapId |-> "", sourceCode |-> "",
     arg |-> ""] : mt \in {"ping", "foo"} }
    \cup
  { [method |-> mt, paramsKind |-> pk, snapId |-> "", sourceCode |-> "", arg |-> ""] :
      mt \in {"executeSnap", "snapRpc"}, pk \in {"undefined", "null"} }
    \cup
  { [method |-> "executeSnap", paramsKind |-> "object", snapId |-> sn,
     sourceCode |-> sc, arg |-> ""] :
      sn \in {"A", ""}, sc \in {"reg", "throw", "reg;throw", "reg;reg", ""} }
    \cup
  { [method |-> "snapRpc", paramsKind |-> "object", snapId |-> sn,
     sourceCode |-> "", arg |-> "x"] : sn \in {"A", "B"} }

\* what can arrive on the controller's command stream: objects, and an
\* array, a string and null
Messages ==
  { [kind |-> "object", idType |-> i.idType, id |-> i.id, method |-> b.method,
     paramsKind |-> b.paramsKind, snapId |-> b.snapId,
     sourceCode |-> b.sourceCode, arg |-> b.arg] :
      i \in MessageIds, b \in MessageBodies }
    \cup
  { [kind |-> k, idType |-> "undefined", id |-> "undefined", method |-> "ping",
     paramsKind |-> "undefined", snapId |-> "", sourceCode |-> "", arg |-> ""] :
      k \in {"array", "string", "null"} }

\* the command stream of isolate j emits 'data' with message m
WorkerReceives(j, m, out) ==
  LET t == onCommandRequest(snapRpcHandlers[j], m, out) IN
  /\ snapRpcHandlers' = [snapRpcHandlers EXCEPT ![j] = t.handlers]
  /\ evalThrew' = [evalThrew EXCEPT ![j] = noteEvaluations(@, t.evaluated)]
  /\ workerTurn' = [message |-> m, job |-> j,
                    handlersBefore |-> snapRpcHandlers[j],
                    failedBefore |-> evalThrew[j],
                    written |-> t.written, ran |-> t.ran]
  /\ UNCHANGED << jobs, nextJob, destroyed, containers, snapToJobMap,
                  jobToSnapMap, snapRpcHooks, timeoutForUnresponsiveMap,
                  timers, nextTimer, polls, calls, hookRefs, hookCalls, cmds,
                  resps, unresponsive, unresponsiveOfJob, providerSetups,
                  contractObeyed, lastCall, oobVars, sick, handlerRuns >>

NextWorker ==
  \E j \in JobIds, m \in Messages :
    \E out \in IF m.method = "snapRpc" THEN HandlerOutcomes ELSE {NoOutcome} :
      WorkerReceives(j, m, out)

SpecWorker == Init /\ [][NextWorker]_vars

\* ================================================================== claims
Jobs == SeqToSet(jobs)

Settled(c) == calls[c].pc \in {"resolved", "rejected"}

NoCallPending == \A c \in 1..Len(calls) : Settled(c)

MapsInverse ==
  /\ \A s \in DOMAIN snapToJobMap :
       /\ MapHas(jobToSnapMap, snapToJobMap[s])
       /\ jobToSnapMap[snapToJobMap[s]] = s
  /\ \A j \in DOMAIN jobToSnapMap :
       /\ MapHas(snapToJobMap, jobToSnapMap[j])
       /\ snapToJobMap[jobToSnapMap[j]] = j

\* C1: for call sequences that obey the contract (no executeSnap for a snapId
\* that is executing, no terminateSnap for an unknown snapId), snapToJobMap
\* and jobToSnapMap are inverse of each other and the number of mapped snaps
\* equals the number of installed RPC hooks.  Stated here for the states
\* between calls (no executeSnap call pending), which the claim includes.
C1_BijectiveAndHookCount ==
  (contractObeyed /\ NoCallPending) =>
    /\ MapsInverse
    /\ Cardinality(DOMAIN snapToJobMap) = Cardinality(DOMAIN snapRpcHooks)

\* C2: in every state a caller can observe, getRpcMessageHandler(snapId)
\* returns a hook if and only if snapId is in the snap-to-job mapping.
C2_HookIffMapped ==
  \A s \in SnapIdValues :
    (getRpcMessageHandler(s) # "absent") <=> MapHas(snapToJobMap, s)

\* C3: a second executeSnap(A) without a terminate in between never leads to
\* two live jobs associated with the same snapId.
C3_OneJobPerSnap ==
  \A j1 \in DOMAIN jobToSnapMap, j2 \in DOMAIN jobToSnapMap :
    (j1 \in Jobs /\ j2 \in Jobs /\ jobToSnapMap[j1] = jobToSnapMap[j2]) => j1 = j2

\* C4: when terminate(jobId) returns for a job mapped to snap S (the job
\* leaves the registry), S is absent from snapToJobMap, jobId is absent from
\* jobToSnapMap and the registry, S has no hook and no liveness-timer entry,
\* the job's streams are destroyed; when it is the only job terminated in the
\* step, the mappings, hooks, timers and job records of every other snap are
\* unchanged.
TerminateEffect(j) ==
  LET S == jobToSnapMap[j] IN
  /\ ~MapHas(snapToJobMap', S)
  /\ ~MapHas(jobToSnapMap', j)
  /\ j \notin SeqToSet(jobs')
  /\ ~MapHas(snapRpcHooks', S)
  /\ ~MapHas(timeoutForUnresponsiveMap', S)
  /\ j \in destroyed'
  /\ j \notin containers'
  /\ (SeqToSet(jobs) \ SeqToSet(jobs') = {j}) =>
       /\ jobs' = SeqRemove(jobs, j)
       /\ jobToSnapMap' = MapDelete(jobToSnapMap, j)
       /\ snapToJobMap' = MapDelete(snapToJobMap, S)
       /\ snapRpcHooks' = MapDelete(snapRpcHooks, S)
       /\ timeoutForUnresponsiveMap' = MapDelete(timeoutForUnresponsiveMap, S)
       /\ {t \in timers' : t.snapId # S} = {t \in timers : t.snapId # S}
       /\ destroyed' = destroyed \cup {j}

C4_TerminateRemovesSnapOnly ==
  [][\A j \in Jobs : (j \notin SeqToSet(jobs')) => TerminateEffect(j)]_vars

\* C4 witness: a job whose hook had been installed was terminated while
\* another snap keeps its mapping, hook and timer entry
C4_Witness ==
  \E hook \in hookRefs :
    /\ hook.job \in destroyed
    /\ \E s \in DOMAIN snapRpcHooks :
         /\ s # hook.target
         /\ MapHas(snapToJobMap, s)
         /\ MapHas(timeoutForUnresponsiveMap, s)

\* C5: once terminate(j) has completed, every later invocation of a hook that
\* was installed for j rejects: it never resolves and no command is sent.
C5_StaleHookRejects ==
  \A n \in 1..Len(hookCalls) :
    hookCalls[n].stale =>
      /\ hookCalls[n].status = "rejected"
      /\ \A c \in cmds : c.id # <<"rpc", n>>
      /\ \A r \in resps : r.id # <<"rpc", n>>

\* C5 witness: a hook obtained before the termination was invoked after it,
\* and the snap has since been executed again on a new job
C5_Witness ==
  \E n \in 1..Len(hookCalls) :
    /\ hookCalls[n].stale
    /\ MapHas(snapRpcHooks, hookCalls[n].target)
    /\ snapRpcHooks[hookCalls[n].target].job # hookCalls[n].job

AllEmpty ==
  /\ DOMAIN snapRpcHooks = {}
  /\ DOMAIN snapToJobMap = {}
  /\ DOMAIN jobToSnapMap = {}
  /\ jobs = << >>
  /\ DOMAIN timeoutForUnresponsiveMap = {}

\* C6: from any reachable state, when terminateAllSnaps() completes, the hook
\* map, both directions of the mapping, the job registry and the
\* liveness-timer map are all empty.
C6_TerminateAllEmpties ==
  lastCall.op = "terminateAllSnaps" => AllEmpty

\* C7: terminate(jobId) never throws for a jobId present in the job registry.
C7_TerminateNeverThrows ==
  \A j \in Jobs : ~terminate(Host, j).thrown

\* the evaluation of call c's source in a fresh isolate throws
EvaluationThrows(c) ==
  /\ isTruthyString(calls[c].snapId)
  /\ isTruthyString(calls[c].sourceCode)
  /\ evaluate({}, calls[c].snapId, calls[c].sourceCode).threw

\* nothing of call c is left in the service
NothingLeftOf(c) ==
  /\ calls[c].job \notin Jobs
  /\ ~MapHas(jobToSnapMap, calls[c].job)
  /\ \A s \in DOMAIN snapToJobMap : snapToJobMap[s] # calls[c].job
  /\ \A s \in DOMAIN snapRpcHooks : snapRpcHooks[s].job # calls[c].job
  /\ \A t \in timers : t.jobId # calls[c].job

\* C8: if evaluating the snap's source throws, the isolate answers the
\* executeSnap command with an error response, executeSnap rejects, and
\* afterwards the snap has no mapping, hook or timer and its job is terminated.
C8_EvaluationThrowRejects ==
  \A c \in 1..Len(calls) :
    EvaluationThrows(c) =>
      /\ \A r \in resps : r.id = <<"exec", c>> => r.error
      /\ calls[c].pc # "resolved"
      /\ (calls[c].pc = "rejected" /\ calls[c].err = "evaluation error")
           => (NothingLeftOf(c) /\ calls[c].job \in destroyed)

InvalidParams(c) ==
  ~isTruthyString(calls[c].snapId) \/ ~isTruthyString(calls[c].sourceCode)

\* C9: for snapData whose snapId or sourceCode is not a non-empty string,
\* executeSnap does not resolve and, once it has rejected after the isolate's
\* answer to the executeSnap command, no mapping, hook or job record created
\* by the call remains.
C9_InvalidParamsLeaveNothing ==
  \A c \in 1..Len(calls) :
    InvalidParams(c) =>
      /\ calls[c].pc # "resolved"
      /\ (calls[c].pc = "rejected" /\
          calls[c].err \in {"Invalid executeSnap parameters.",
                            "Failed to find a snap for job"})
           => NothingLeftOf(c)

\* C10: for one executing snap, unresponsive is published at most once per
\* isolate, and after the publication no liveness timer is pending and no
\* liveness ping is in flight for that isolate.
C10_UnresponsiveOnce ==
  \A j \in JobIds :
    /\ unresponsiveOfJob[j] <= 1
    /\ unresponsiveOfJob[j] = 1 =>
         /\ \A t \in timers : t.jobId # j
         /\ \A p \in polls : p.jobId # j

\* C11: when terminateAllSnaps() or terminateSnap is called while a snap is
\* live and healthy (its isolate never failed or missed a ping), with its
\* liveness timer pending or a liveness ping in flight, the job is removed,
\* no hook of the job remains, and neither unresponsive nor unhandledError is
\* published for it, during the shutdown or at any later time.
C11_OrderlyShutdownIsSilent ==
  contractObeyed =>
    \A j \in destroyed \ sick :
      /\ j \notin Jobs
      /\ \A s \in DOMAIN snapRpcHooks : snapRpcHooks[s].job # j
      /\ unresponsiveOfJob[j] = 0
      /\ unhandledErrorOfJob[j] = 0

\* C12: for a job mapped to snap S, every id-less error arriving on the job's
\* command channel is published as unhandledError(S, error) exactly once, also
\* when an earlier id-less error arrived on the same job (even during the
\* handshake, before S was mapped); no other message is published.
C12_EveryOobErrorPublished ==
  \A j \in JobIds : unhandledErrorOfJob[j] = oobErrors[j]

\* how often setupSnapProvider was called with the rpc substream of job
SetupsOfJob(job) ==
  {key \in DOMAIN providerSetups : key.job = job}

\* C13: setupSnapProvider(snapId, rpcStream) is called exactly once for every
\* executeSnap call that succeeds, with the rpc substream of the job spawned
\* by that call, before the snap's RPC hook is installed, and it is never
\* called for an executeSnap call that rejects.
C13_SetupOncePerSuccess ==
  /\ \A c \in 1..Len(calls) :
       /\ calls[c].pc = "resolved" =>
            /\ SetupsOfJob(calls[c].job) =
                 {[snapId |-> calls[c].snapId, job |-> calls[c].job]}
            /\ providerSetups[[snapId |-> calls[c].snapId, job |-> calls[c].job]] = 1
       /\ calls[c].pc = "rejected" => SetupsOfJob(calls[c].job) = {}
  /\ \A s \in DOMAIN snapRpcHooks :
       MapHas(providerSetups, [snapId |-> s, job |-> snapRpcHooks[s].job])

\* the ids of the commands whose promise has not settled, with their job
PendingIds ==
  {<< <<"init", c>>, calls[c].job >> : c \in {x \in 1..Len(calls) : calls[x].pc = "ping"}}
    \cup
  {<< <<"exec", c>>, calls[c].job >> : c \in {x \in 1..Len(calls) : calls[x].pc = "exec"}}
    \cup
  {<< <<"poll", p.id>>, p.jobId >> : p \in polls}
    \cup
  {<< <<"rpc", n>>, hookCalls[n].job >> :
      n \in {x \in 1..Len(hookCalls) : hookCalls[x].status = "pending"}}

\* the host turn that settles the promise of response r can be taken
CanSettle(r) ==
  \/ ENABLED InitPingResponse(r)
  \/ ENABLED ExecResponse(r)
  \/ ENABLED PollResponse(r)
  \/ ENABLED RpcResponse(r)
  \/ nextTimer = MaxTimers

HookSettled(n) == hookCalls[n].status \in {"resolved", "rejected"}

\* the hook invocation n reached the isolate while the snap's handler was registered
HandlerRan(n) == Len(handlerRuns[n]) > 0

\* C15: calling the hook of an executing snap S with a registered handler h
\* invokes h exactly once, with the origin and request of the call; if h
\* resolves to v the hook promise resolves to v, if h throws e the hook
\* promise rejects with e's message; without a registered handler the hook
\* promise rejects.
C15_HookFollowsHandler ==
  \A n \in 1..Len(hookCalls) :
    /\ Len(handlerRuns[n]) <= 1
    /\ \A i \in 1..Len(handlerRuns[n]) :
         /\ handlerRuns[n][i].arg = hookCalls[n].arg
         /\ handlerRuns[n][i].target = hookCalls[n].target
         /\ handlerRuns[n][i].job = hookCalls[n].job
    /\ (HookSettled(n) /\ HandlerRan(n)) =>
         /\ hookCalls[n].status =
              (IF handlerRuns[n][1].threw THEN "rejected" ELSE "resolved")
         /\ hookCalls[n].value = handlerRuns[n][1].value
    /\ (HookSettled(n) /\ ~HandlerRan(n)) => hookCalls[n].status = "rejected"

\* C15 witness: a handler that was called with the caller's (origin, request)
\* threw, and the hook promise has rejected with the handler's message
C15_Witness ==
  \E n \in 1..Len(hookCalls) :
    /\ HandlerRan(n)
    /\ handlerRuns[n][1].threw
    /\ handlerRuns[n][1].arg = "y"
    /\ hookCalls[n].status = "rejected"
    /\ hookCalls[n].value = "e"

\* nothing of the service's registries changes, no isolate is spawned or destroyed
ServiceUnchanged ==
  UNCHANGED << jobs, snapToJobMap, jobToSnapMap, snapRpcHooks,
               timeoutForUnresponsiveMap, timers, nextJob, containers,
               destroyed >>

\* an earlier executeSnap for snapId has succeeded and the snap is still
\* mapped to the job of that call
AlreadySucceeded(snapId) ==
  \E c \in 1..Len(calls) :
    /\ calls[c].snapId = snapId
    /\ calls[c].pc = "resolved"
    /\ snapId \in DOMAIN snapToJobMap
    /\ snapToJobMap[snapId] = calls[c].job

\* C16: terminateSnap(snapId) for a snapId that is not in the mapping, and
\* executeSnap for a snapId whose earlier executeSnap has succeeded, both
\* reject and leave the job registry, both mapping directions, the hook map
\* and the liveness-timer map as they were; no isolate is spawned or destroyed.
C16_CallerErrorsChangeNothing ==
  [][ /\ \A s \in SnapIdValues :
           (TerminateSnap(s) /\ s \notin DOMAIN snapToJobMap) =>
             (lastCall'.rejected /\ ServiceUnchanged)
      /\ \A d \in SnapDataValues :
           (ExecuteSnap(d.snapId, d.sourceCode) /\ AlreadySucceeded(d.snapId)) =>
             /\ calls'[Len(calls')].pc = "rejected"
             /\ ServiceUnchanged ]_vars

\* C16 witness: with a snap executing, a second executeSnap for it has been
\* rejected and a terminateSnap for an unknown snap has just been rejected
C16_Witness ==
  /\ lastCall = Settle("terminateSnap", TRUE)
  /\ jobs # << >>
  /\ \E c1 \in 1..Len(calls), c2 \in 1..Len(calls) :
       /\ c1 < c2
       /\ calls[c1].snapId = calls[c2].snapId
       /\ calls[c1].pc = "resolved"
       /\ calls[c2].err = "already being executed"
       /\ calls[c1].job \in Jobs

\* C17: the snap-job mapping and the RPC hook are installed only after the
\* isolate's successful response to the executeSnap command has been received:
\* while a call still waits for that response, no caller can observe its
\* snapId mapped to its job, its job mapped to a snap, or a hook of its job.
C17_MappedOnlyAfterConfirm ==
  \A c \in 1..Len(calls) :
    calls[c].pc = "exec" =>
      /\ ~MapHas(jobToSnapMap, calls[c].job)
      /\ \A s \in DOMAIN snapToJobMap : snapToJobMap[s] # calls[c].job
      /\ \A s \in DOMAIN snapRpcHooks : snapRpcHooks[s].job # calls[c].job

\* the spawn handshake of call c failed
HandshakeFailed(c) ==
  /\ calls[c].pc = "rejected"
  /\ calls[c].err \in {"Timed out creating iframe window", "ping failed"}

\* C18: if the spawn handshake fails (the container is not ready in time, or
\* the initial ping is answered with an error), executeSnap rejects and the
\* partially built isolate is torn down: no job record, container or mapping
\* of it remains, and streams that were set up are destroyed.
C18_FailedHandshakeTornDown ==
  \A c \in 1..Len(calls) :
    HandshakeFailed(c) =>
      /\ NothingLeftOf(c)
      /\ calls[c].job \notin containers
      /\ calls[c].err = "ping failed" => calls[c].job \in destroyed

WellFormed(m) == m.kind = "object" /\ m.idType \in {"string", "number"}

\* C19: the controller writes a response only for a message that is a
\* non-array object with a string or number id; any other message produces
\* no response and changes no worker state; every well-formed message
\* produces one response tagged with the message's id and jsonrpc '2.0' that
\* carries exactly one of result or error, the error form for any method
\* other than ping, executeSnap and snapRpc.
C19_ResponseIffWellFormed ==
  LET m == workerTurn.message IN
  m.kind # "none" =>
    IF ~WellFormed(m)
    THEN /\ workerTurn.written = {}
         /\ snapRpcHandlers[workerTurn.job] = workerTurn.handlersBefore
    ELSE /\ Cardinality(workerTurn.written) = 1
         /\ \A w \in workerTurn.written :
              /\ w.id = m.id
              /\ w.jsonrpc = "2.0"
              /\ (w.result = Absent) # (w.error = Absent)
              /\ m.method \notin {"ping", "executeSnap", "snapRpc"} =>
                   w.error # Absent

HealthyNow(s) ==
  /\ MapHas(snapToJobMap, s)
  /\ snapToJobMap[s] \notin sick
  /\ \E c \in 1..Len(calls) :
       /\ calls[c].snapId = s
       /\ calls[c].job = snapToJobMap[s]
       /\ calls[c].pc = "resolved"

\* job j ran snap s earlier, was healthy, and has been terminated
OldHealthyJobOf(s, j) ==
  /\ j \in destroyed \ sick
  /\ [target |-> s, job |-> j] \in hookRefs
  /\ MapHas(snapToJobMap, s) /\ snapToJobMap[s] # j

\* C21: unresponsive(S) is published only for a ping to the job S is mapped
\* to: when S was terminated with a liveness ping in flight and runs again
\* on a new healthy job, the liveness chain of the old job has published no
\* unresponsive(S), and neither has the chain of the new job.
C21_OldPingNeverReported ==
  contractObeyed =>
    \A s \in SnapIdValues :
      HealthyNow(s) =>
        /\ unresponsiveOfJob[snapToJobMap[s]] = 0
        /\ \A j \in JobIds : OldHealthyJobOf(s, j) => unresponsiveOfJob[j] = 0

\* the snapIds of the executeSnap calls that spawned job j
SpawnedFor(j) ==
  {calls[c].snapId : c \in {x \in 1..Len(calls) : calls[x].job = j}}

\* C22: every snapRpc command written to a job's command channel carries as
\* target the snapId the job was spawned for, and a snap's handler only ever
\* runs in the job spawned for that snap: a hook obtained for snap A never
\* delivers a request to the job of another snap.
C22_HookRoutesToOwnJob ==
  /\ \A c \in cmds : c.method = "snapRpc" => c.snapId \in SpawnedFor(c.job)
  /\ \A n \in 1..Len(hookCalls) :
       /\ hookCalls[n].target \in SpawnedFor(hookCalls[n].job)
       /\ \A i \in 1..Len(handlerRuns[n]) :
            /\ handlerRuns[n][i].job = hookCalls[n].job
            /\ handlerRuns[n][i].target \in SpawnedFor(handlerRuns[n][i].job)

\* C22 witness: with two distinct snaps live, each with its hook, an
\* invocation of the hook of the snap that was executed second has reached
\* that snap's handler
C22_Witness ==
  \E n \in 1..Len(hookCalls) :
    /\ HandlerRan(n)
    /\ hookCalls[n].job \in Jobs
    /\ \E s \in DOMAIN snapRpcHooks :
         /\ s # hookCalls[n].target
         /\ snapRpcHooks[s].job \in Jobs
         /\ snapRpcHooks[s].job < hookCalls[n].job

====
